---------------------------- MODULE Spec2Model ----------------------------
(***************************************************************************)
(* Model of src/app.py: the "Company Email Scraper" Streamlit script.      *)
(*                                                                         *)
(* One execution of the main action (the body of the button handler) is a  *)
(* state machine: the input gate, the search loop of scrape_profiles, the  *)
(* pandas column transformations, the row-by-row validate_email and the    *)
(* workbook write.  Python strings are sequences of one-character strings. *)
(***************************************************************************)
EXTENDS Integers, Sequences, FiniteSets, TLC

VARIABLES
    company_name,        \* st.text_input "Company Name"
    email_suffix,        \* st.text_input "Email Domain"
    separator,           \* st.selectbox "First-Last Name Separator"
    location,            \* st.text_input "Location (City)"
    pages,               \* st.number_input "Number of Google Pages"
    uploaded_excel,      \* st.file_uploader: TRUE when a workbook is uploaded
    SERPAPI_KEY,         \* os.getenv("SERPAPI_KEY"): a string, or None
    pc,                  \* position of the script in the main action
    page,                \* number of search pages fetched so far
    input,               \* every organic result received, in order
    rows,                \* scrape_profiles' local list `rows`
    progress,            \* values handed to the progress bar, in order
    df,                  \* the DataFrame: a sequence of rows (records)
    vi,                  \* 1-based index of the row Series.apply is at
    validation_results,  \* the Series apply is building
    domain,              \* validate_email's local `domain`
    lookup,              \* the resolver calls made: domain asked, answer
    search_calls,        \* number of GoogleSearch queries issued
    workbook_writes      \* number of times the workbook was written

vars == << company_name, email_suffix, separator, location, pages,
           uploaded_excel, SERPAPI_KEY, pc, page, input, rows, progress,
           df, vi, validation_results, domain, lookup, search_calls,
           workbook_writes >>

(***************************************************************************)
(* Bounds of the model.                                                    *)
(***************************************************************************)
MaxTitleLen == 5
MaxEmailLen == 6
MaxRecords == 3
MaxPages == 2

(***************************************************************************)
(* Python values.                                                          *)
(***************************************************************************)
None == << "<None>" >>
NaN == << "<NaN>" >>

UpperLetters == << "A","B","C","D","E","F","G","H","I","J","K","L","M",
                   "N","O","P","Q","R","S","T","U","V","W","X","Y","Z" >>
LowerLetters == << "a","b","c","d","e","f","g","h","i","j","k","l","m",
                   "n","o","p","q","r","s","t","u","v","w","x","y","z" >>
Letters == { UpperLetters[i] : i \in 1..26 } \cup { LowerLetters[i] : i \in 1..26 }
Digits == { "0","1","2","3","4","5","6","7","8","9" }
Whitespace == { " ", "\t", "\n", "\r", "\f" }

\* bool(x) of a string or None
Truthy(s) == s # None /\ s # << >>

\* c in s
Contains(s, c) == \E i \in 1..Len(s) : s[i] = c

\* s.find(c), 1-based; Len(s)+1 when absent
FirstIndex(s, c) ==
    IF Contains(s, c)
    THEN CHOOSE i \in 1..Len(s) : s[i] = c /\ \A j \in 1..(i-1) : s[j] # c
    ELSE Len(s) + 1

\* str.split(c)
RECURSIVE Split(_, _)
Split(s, c) ==
    IF ~Contains(s, c) THEN << s >>
    ELSE LET i == FirstIndex(s, c)
         IN  << SubSeq(s, 1, i-1) >> \o Split(SubSeq(s, i+1, Len(s)), c)

\* str.strip()
StripLeftOnly(s) ==
    LET keep == { i \in 1..Len(s) : s[i] \notin Whitespace }
    IN  IF keep = {} THEN << >>
        ELSE SubSeq(s, CHOOSE i \in keep : \A j \in keep : i <= j, Len(s))

Strip(s) ==
    LET keep == { i \in 1..Len(s) : s[i] \notin Whitespace }
    IN  IF keep = {} THEN << >>
        ELSE SubSeq(s, CHOOSE i \in keep : \A j \in keep : i <= j,
                       CHOOSE i \in keep : \A j \in keep : i >= j)

\* str.lower(), one character
LowerChar(c) ==
    IF \E i \in 1..26 : UpperLetters[i] = c
    THEN LowerLetters[CHOOSE i \in 1..26 : UpperLetters[i] = c]
    ELSE c

\* str.lower()
Lower(s) == [i \in 1..Len(s) |-> LowerChar(s[i])]

\* Series.str[i] on a list (0-based i >= 0): NaN when out of range
StrGet(list, i) == IF i + 1 <= Len(list) THEN list[i + 1] ELSE NaN

\* Series.str[-1] on a list
StrLast(list) == IF Len(list) >= 1 THEN list[Len(list)] ELSE NaN

\* Series.str.strip(): NaN stays NaN
StrStrip(s) == IF s = NaN THEN NaN ELSE Strip(s)

(***************************************************************************)
(* PROCESS DATA: the column transformations of lines 139-150, per row.     *)
(***************************************************************************)
full_name_NoStrip(title) == StrGet(Split(title, "-"), 0)

full_name(title) == StrStrip(StrGet(Split(title, "-"), 0))

position_LeftStrip(title) ==
    LET seg == StrGet(Split(title, "-"), 1)
    IN  IF seg = NaN THEN NaN ELSE StripLeftOnly(seg)

position(title) == StrStrip(StrGet(Split(title, "-"), 1))

first_name(full) == StrGet(Split(full, " "), 0)

last_name(full) == StrLast(Split(full, " "))

email_Swapped(first, last, sep, suffix) ==
    Lower(last) \o sep \o Lower(first) \o Lower(suffix)

email(first, last, sep, suffix) ==
    Lower(first) \o sep \o Lower(last) \o Lower(suffix)

ProcessRow(r) ==
    LET full == full_name(r.Title)
        fn == first_name(full)
        ln == last_name(full)
    IN  [ Title |-> r.Title, Link |-> r.Link,
          full_name |-> full,
          position |-> position(r.Title),
          first_name |-> fn,
          last_name |-> ln,
          email |-> email(fn, ln, separator, email_suffix) ]

(***************************************************************************)
(* EMAIL VALIDATION FUNCTIONS, lines 53-75.                                *)
(***************************************************************************)
LocalChars == Letters \cup Digits \cup { ".", "_", "%", "+", "-" }
DomainChars == Letters \cup Digits \cup { ".", "-" }

\* The pattern between ^ and $ matches the whole of s.
PatternMatches(s) ==
    \E i \in 2..Len(s) : \E j \in (i+2)..Len(s) :
        /\ \A k \in 1..(i-1) : s[k] \in LocalChars
        /\ s[i] = "@"
        /\ \A k \in (i+1)..(j-1) : s[k] \in DomainChars
        /\ s[j] = "."
        /\ Len(s) - j >= 2
        /\ \A k \in (j+1)..Len(s) : s[k] \in Letters

\* Where $ can match: at the end, or just before a newline that ends the string.
DollarPositions(s) ==
    { Len(s) } \cup { p \in { Len(s) - 1 } : p >= 0 /\ s[Len(s)] = "\n" }

validate_syntax(e) ==
    \E p \in DollarPositions(e) : PatternMatches(SubSeq(e, 1, p))

\* What dns.resolver.resolve(domain, "MX") can do: return an answer of n
\* records, or raise.
Raises == { "NXDOMAIN", "Timeout" }
ResolverAnswers ==
    [ kind : { "answer" }, n : 0..1 ] \cup [ kind : Raises, n : { 0 } ]

\* validate_mx, given what the resolver does: the value returned, or raised
\* when an exception leaves the function.
Returns(v) == [ raised |-> FALSE, value |-> v ]
Propagates == [ raised |-> TRUE, value |-> FALSE ]

validate_mx_CatchesNXDOMAINOnly(answer) ==
    IF answer.kind = "answer" THEN Returns(answer.n > 0)
    ELSE IF answer.kind = "NXDOMAIN" THEN Returns(FALSE)
    ELSE Propagates

validate_mx_EmptyIsTrue(answer) ==
    IF answer.kind = "answer" THEN Returns(answer.n >= 0) ELSE Returns(FALSE)

validate_mx(answer) ==
    IF answer.kind = "answer" THEN Returns(answer.n > 0) ELSE Returns(FALSE)

(***************************************************************************)
(* The inputs of one run.                                                  *)
(***************************************************************************)
Acme == << "A", "c", "m", "e" >>
Mumbai == << "M", "u", "m", "b", "a", "i" >>
SuffixAcme == << "@", "a", "c", "m", "e", ".", "c", "o", "m" >>
SuffixMixed == << "@", "A", "c", ".", "I", "O" >>
SuffixNoAt == << "a", "c", ".", "i", "o" >>
Key == << "k", "e", "y" >>
Separators == { << "." >>, << "_" >> }

TitleJane == << "J","a","n","e"," ","D","o","e"," ","-"," ",
                "H","R"," ","M","a","n","a","g","e","r" >>
TitleTwoHyphens == << "A","l"," ","B"," ","-"," ","C","T","O"," ","-"," ","X" >>
TitleNoHyphen == << "J","a","n","e"," ","D","o","e"," ","H","R" >>

\* The organic results a search page can hold.
OrganicResults ==
    { [ title |-> TitleJane, link |-> "l1" ],
      [ title |-> TitleJane, link |-> "l2" ],
      [ title |-> TitleTwoHyphens, link |-> "l1" ],
      [ title |-> TitleNoHyphen, link |-> "l1" ],
      [ title |-> None, link |-> "l1" ],
      [ title |-> << >>, link |-> "l2" ] }

SeqsUpTo(S, n) == UNION { [1..k -> S] : k \in 0..n }

(***************************************************************************)
(* scrape_profiles, lines 81-113.                                          *)
(***************************************************************************)
Fraction(n, d) == << n, d >>

\* line 111: the value set after page number p (0-based) of n
page_progress_OffByOne(p, n) == Fraction(p, n)

page_progress(p, n) == Fraction(p + 1, n)

Kept_TruthyOnly(r) == Truthy(r.title)

\* line 108
Kept(r) == Truthy(r.title) /\ Contains(r.title, "-")

Row(r) == [ Title |-> r.title, Link |-> r.link ]

\* DataFrame.drop_duplicates(): keeps the first of equal rows, in order
RECURSIVE drop_duplicates(_), drop_duplicates_KeepLast(_)
drop_duplicates_KeepLast(s) ==
    IF s = << >> THEN << >>
    ELSE LET rest == drop_duplicates_KeepLast(SubSeq(s, 2, Len(s)))
         IN  IF \E i \in 1..Len(rest) : rest[i] = s[1]
             THEN rest
             ELSE << s[1] >> \o rest

drop_duplicates(s) ==
    IF s = << >> THEN << >>
    ELSE LET init == drop_duplicates(SubSeq(s, 1, Len(s) - 1))
             last == s[Len(s)]
         IN  IF \E i \in 1..Len(init) : init[i] = last
             THEN init
             ELSE Append(init, last)

(***************************************************************************)
(* MAIN ACTION, lines 119-200.                                             *)
(***************************************************************************)
Init ==
    /\ company_name \in { << >>, Acme }
    /\ email_suffix \in { << >>, SuffixMixed, SuffixNoAt }
    /\ separator \in Separators
    /\ location \in { << >>, Mumbai }
    /\ pages \in 1..MaxPages
    /\ uploaded_excel \in BOOLEAN
    /\ SERPAPI_KEY \in { None, Key }
    /\ pc = "main"
    /\ page = 0
    /\ input = << >>
    /\ rows = << >>
    /\ progress = << >>
    /\ df = << >>
    /\ vi = 1
    /\ validation_results = << >>
    /\ domain = None
    /\ lookup = << >>
    /\ search_calls = 0
    /\ workbook_writes = 0

\* the main action without the test of line 125
CheckInputs_NoKeyGate ==
    /\ pc = "main"
    /\ \/ /\ ~( Truthy(company_name) /\ Truthy(email_suffix)
                /\ Truthy(location) /\ uploaded_excel )
          /\ pc' = "stopped"
          /\ UNCHANGED progress
       \/ /\ Truthy(company_name) /\ Truthy(email_suffix)
          /\ Truthy(location) /\ uploaded_excel
          /\ pc' = "scrape"
          /\ progress' = Append(progress, Fraction(0, 1))
    /\ UNCHANGED << company_name, email_suffix, separator, location, pages,
                    uploaded_excel, SERPAPI_KEY, page, input, rows, df, vi,
                    validation_results, domain, lookup, search_calls,
                    workbook_writes >>

\* lines 121-130: the two gates, then scrape_profiles is entered (line 90)
CheckInputs ==
    /\ pc = "main"
    /\ \/ /\ ~( Truthy(company_name) /\ Truthy(email_suffix)
                /\ Truthy(location) /\ uploaded_excel )
          /\ pc' = "stopped"
          /\ UNCHANGED progress
       \/ /\ Truthy(company_name) /\ Truthy(email_suffix)
          /\ Truthy(location) /\ uploaded_excel
          /\ ~Truthy(SERPAPI_KEY)
          /\ pc' = "stopped"
          /\ UNCHANGED progress
       \/ /\ Truthy(company_name) /\ Truthy(email_suffix)
          /\ Truthy(location) /\ uploaded_excel
          /\ Truthy(SERPAPI_KEY)
          /\ pc' = "scrape"
          /\ progress' = Append(progress, Fraction(0, 1))
    /\ UNCHANGED << company_name, email_suffix, separator, location, pages,
                    uploaded_excel, SERPAPI_KEY, page, input, rows, df, vi,
                    validation_results, domain, lookup, search_calls,
                    workbook_writes >>

\* lines 92-111: one iteration of the page loop
FetchPage ==
    /\ pc = "scrape"
    /\ page < pages
    /\ \E results \in SeqsUpTo(OrganicResults, MaxRecords - Len(input)) :
          /\ input' = input \o results
          /\ rows' = rows \o [ i \in 1..Len(SelectSeq(results, Kept)) |->
                                   Row(SelectSeq(results, Kept)[i]) ]
    /\ search_calls' = search_calls + 1
    /\ progress' = Append(progress, page_progress(page, pages))
    /\ page' = page + 1
    /\ UNCHANGED << company_name, email_suffix, separator, location, pages,
                    uploaded_excel, SERPAPI_KEY, pc, df, vi,
                    validation_results, domain, lookup, workbook_writes >>

\* lines 113, 130-134: the loop is over; the frame is returned and tested
ReturnProfiles ==
    /\ pc = "scrape"
    /\ page = pages
    /\ df' = drop_duplicates(rows)
    /\ pc' = IF drop_duplicates(rows) = << >> THEN "stopped" ELSE "process"
    /\ UNCHANGED << company_name, email_suffix, separator, location, pages,
                    uploaded_excel, SERPAPI_KEY, page, input, rows, progress,
                    vi, validation_results, domain, lookup, search_calls,
                    workbook_writes >>

\* lines 139-150
ProcessData ==
    /\ pc = "process"
    /\ df' = [ i \in 1..Len(df) |-> ProcessRow(df[i]) ]
    /\ pc' = "apply"
    /\ vi' = 1
    /\ validation_results' = << >>
    /\ UNCHANGED << company_name, email_suffix, separator, location, pages,
                    uploaded_excel, SERPAPI_KEY, page, input, rows, progress,
                    domain, lookup, search_calls, workbook_writes >>

\* validate_email called with an address that only has to hold an "@"
ValidateEmail_ChecksAtSignOnly ==
    /\ pc = "apply"
    /\ vi <= Len(df)
    /\ IF ~Contains(df[vi].email, "@")
       THEN /\ validation_results' =
                 Append(validation_results, << "Invalid Syntax", "Low" >>)
            /\ vi' = vi + 1
            /\ UNCHANGED << pc, domain >>
       ELSE /\ domain' = Split(df[vi].email, "@")[2]
            /\ pc' = "validate_mx"
            /\ UNCHANGED << vi, validation_results >>
    /\ UNCHANGED << company_name, email_suffix, separator, location, pages,
                    uploaded_excel, SERPAPI_KEY, page, input, rows, progress,
                    df, lookup, search_calls, workbook_writes >>

\* lines 155, 66-70: apply calls validate_email on the next row; it returns
\* at line 68 or goes on to line 72 (a list index out of range at line 70
\* raises IndexError, which nothing catches)
ValidateEmail ==
    /\ pc = "apply"
    /\ vi <= Len(df)
    /\ IF ~validate_syntax(df[vi].email)
       THEN /\ validation_results' =
                 Append(validation_results, << "Invalid Syntax", "Low" >>)
            /\ vi' = vi + 1
            /\ UNCHANGED << pc, domain >>
       ELSE IF Len(Split(df[vi].email, "@")) < 2
       THEN /\ pc' = "raised"
            /\ UNCHANGED << vi, validation_results, domain >>
       ELSE /\ domain' = Split(df[vi].email, "@")[2]
            /\ pc' = "validate_mx"
            /\ UNCHANGED << vi, validation_results >>
    /\ UNCHANGED << company_name, email_suffix, separator, location, pages,
                    uploaded_excel, SERPAPI_KEY, page, input, rows, progress,
                    df, lookup, search_calls, workbook_writes >>

\* lines 58-63, 72-75: the resolver is asked, validate_email returns
ResolveMX ==
    /\ pc = "validate_mx"
    /\ \E answer \in ResolverAnswers :
          /\ lookup' = Append(lookup, [ row |-> vi, domain |-> domain,
                                        answer |-> answer ])
          /\ IF validate_mx(answer).raised
             THEN /\ pc' = "raised"
                  /\ UNCHANGED << vi, validation_results >>
             ELSE /\ validation_results' =
                       Append(validation_results,
                              IF validate_mx(answer).value
                              THEN << "Valid Domain", "High" >>
                              ELSE << "No MX Record", "Medium" >>)
                  /\ vi' = vi + 1
                  /\ pc' = "apply"
    /\ UNCHANGED << company_name, email_suffix, separator, location, pages,
                    uploaded_excel, SERPAPI_KEY, page, input, rows, progress,
                    df, domain, search_calls, workbook_writes >>

\* lines 156-157
AssignColumns ==
    /\ pc = "apply"
    /\ vi > Len(df)
    /\ df' = [ i \in 1..Len(df) |->
                 df[i] @@ [ validation_status |-> validation_results[i][1],
                            confidence |-> validation_results[i][2] ] ]
    /\ pc' = "save"
    /\ UNCHANGED << company_name, email_suffix, separator, location, pages,
                    uploaded_excel, SERPAPI_KEY, page, input, rows, progress,
                    vi, validation_results, domain, lookup, search_calls,
                    workbook_writes >>

\* lines 162-172
SaveWorkbook ==
    /\ pc = "save"
    /\ workbook_writes' = workbook_writes + 1
    /\ pc' = "done"
    /\ UNCHANGED << company_name, email_suffix, separator, location, pages,
                    uploaded_excel, SERPAPI_KEY, page, input, rows, progress,
                    df, vi, validation_results, domain, lookup, search_calls >>

Next ==
    \/ CheckInputs
    \/ FetchPage
    \/ ReturnProfiles
    \/ ProcessData
    \/ ValidateEmail
    \/ ResolveMX
    \/ AssignColumns
    \/ SaveWorkbook

Spec == Init /\ [][Next]_vars

(***************************************************************************)
(* The name parser and the synthesizer on their own: the script stands at  *)
(* line 139 with one scraped row, whose title is any bounded text with a   *)
(* hyphen (line 108 lets no other title through).                          *)
(***************************************************************************)
TitleChars == { "J", "d", " ", "-" }

TitleInputs ==
    { t \in SeqsUpTo(TitleChars, MaxTitleLen) : Contains(t, "-") }
        \cup { TitleJane, TitleTwoHyphens }

InitParse ==
    /\ company_name = Acme
    /\ email_suffix \in { SuffixAcme, SuffixMixed }
    /\ separator \in Separators
    /\ location = Mumbai
    /\ pages = 1
    /\ uploaded_excel = TRUE
    /\ SERPAPI_KEY = Key
    /\ pc = "process"
    /\ page = 1
    /\ \E t \in TitleInputs :
          /\ input = << [ title |-> t, link |-> "l1" ] >>
          /\ rows = << [ Title |-> t, Link |-> "l1" ] >>
          /\ df = << [ Title |-> t, Link |-> "l1" ] >>
    /\ progress = << Fraction(0, 1), Fraction(1, 1) >>
    /\ vi = 1
    /\ validation_results = << >>
    /\ domain = None
    /\ lookup = << >>
    /\ search_calls = 1
    /\ workbook_writes = 0

NextParse == ProcessData

SpecParse == InitParse /\ [][NextParse]_vars

(***************************************************************************)
(* validate_email on its own: Series.apply stands at a frame of one row    *)
(* whose address is any bounded text.                                      *)
(***************************************************************************)
EmailChars == { "a", "1", "_", "@", ".", "\n" }

AddressNotAnEmail == << "n","o","t","-","a","n","-","e","m","a","i","l" >>
AddressJaneInvalidTld ==
    << "j","a","n","e",".","d","o","e","@","x","-","y",".","i","n","v","a","l","i","d" >>
AddressTrailingNewline == << "a", ".", "b", "@", "c", ".", "c", "o", "m", "\n" >>
AddressTwoAtSigns == << "a", "@", "b", "@", "c", ".", "c", "o", "m" >>

EmailInputs ==
    SeqsUpTo(EmailChars, MaxEmailLen)
        \cup { AddressNotAnEmail, AddressJaneInvalidTld,
               AddressTrailingNewline, AddressTwoAtSigns }

InitClassify ==
    /\ company_name = Acme
    /\ email_suffix = SuffixAcme
    /\ separator = << "." >>
    /\ location = Mumbai
    /\ pages = 1
    /\ uploaded_excel = TRUE
    /\ SERPAPI_KEY = Key
    /\ pc = "apply"
    /\ page = 1
    /\ input = << >>
    /\ rows = << >>
    /\ df \in { << [ email |-> e ] >> : e \in EmailInputs }
    /\ progress = << Fraction(0, 1), Fraction(1, 1) >>
    /\ vi = 1
    /\ validation_results = << >>
    /\ domain = None
    /\ lookup = << >>
    /\ search_calls = 1
    /\ workbook_writes = 0

NextClassify == ValidateEmail \/ ResolveMX

SpecClassify == InitClassify /\ [][NextClassify]_vars

(***************************************************************************)
(* Vocabulary of the properties.                                           *)
(***************************************************************************)
InvalidSyntaxLow == << "Invalid Syntax", "Low" >>
ValidDomainHigh == << "Valid Domain", "High" >>
NoMXRecordMedium == << "No MX Record", "Medium" >>

\* the rows validate_email has returned a verdict for
Classified == 1..Len(validation_results)

\* the resolver calls made for row i
CallsFor(i) == { k \in 1..Len(lookup) : lookup[k].row = i }

\* the text after the first "@"
AfterAt(e) == SubSeq(e, FirstIndex(e, "@") + 1, Len(e))

HasHyphen(t) == t # None /\ \E i \in 1..Len(t) : t[i] = "-"

HyphenCount(t) == Cardinality({ i \in 1..Len(t) : t[i] = "-" })

\* the (title, link) pair a row of the frame was made from
PairOf(r) == [ title |-> r.Title, link |-> r.Link ]

Occurrences(seq, x) == { k \in 1..Len(seq) : seq[k] = x }

FirstOccurrence(seq, x) ==
    CHOOSE k \in Occurrences(seq, x) : \A m \in Occurrences(seq, x) : k <= m

\* the script is past scrape_profiles
Scraped == pc \notin { "main", "scrape" }

\* the script is past the column transformations of lines 139-150
Processed == pc \in { "apply", "validate_mx", "save", "done", "raised" }

AllWhitespace(s, from, to) == \A k \in from..to : s[k] \in Whitespace

NoEdgeWhitespace(x) ==
    x = << >> \/ (x[1] \notin Whitespace /\ x[Len(x)] \notin Whitespace)

\* x is s without the whitespace around it
IsTrimOf(x, s) ==
    /\ x # NaN
    /\ NoEdgeWhitespace(x)
    /\ \E a \in 0..Len(s) :
          /\ a + Len(x) <= Len(s)
          /\ SubSeq(s, a + 1, a + Len(x)) = x
          /\ AllWhitespace(s, 1, a)
          /\ AllWhitespace(s, a + Len(x) + 1, Len(s))

BeforeFirstHyphen(t) == SubSeq(t, 1, FirstIndex(t, "-") - 1)
AfterFirstHyphen(t) == SubSeq(t, FirstIndex(t, "-") + 1, Len(t))

\* fractions n/d, d > 0
InUnit(f) == f[2] > 0 /\ 0 <= f[1] /\ f[1] <= f[2]
Leq(f, g) == f[1] * g[2] <= g[1] * f[2]
Less(f, g) == f[1] * g[2] < g[1] * f[2]
IsOne(f) == f[1] = f[2]

(***************************************************************************)
(* C1: an address that fails the syntax check gets exactly                 *)
(* (Invalid Syntax, Low), and the resolver is never called for it.         *)
(***************************************************************************)
C1_InvalidSyntaxNeverQueried ==
    \A i \in 1..Len(df) :
        ~validate_syntax(df[i].email) =>
            /\ CallsFor(i) = {}
            /\ ~(pc = "validate_mx" /\ vi = i)
            /\ i \in Classified => validation_results[i] = InvalidSyntaxLow

C1_Witness ==
    /\ df[1].email = AddressNotAnEmail
    /\ validation_results = << InvalidSyntaxLow >>
    /\ lookup = << >>

(***************************************************************************)
(* C2: every verdict is one of (Invalid Syntax, Low), (Valid Domain, High) *)
(* and (No MX Record, Medium); it is (Valid Domain, High) exactly when the *)
(* syntax check passes and the resolver, asked for the text after the "@", *)
(* answered with at least one record.                                      *)
(***************************************************************************)
C2_ThreeVerdicts ==
    \A i \in Classified :
        /\ validation_results[i] \in
               { InvalidSyntaxLow, ValidDomainHigh, NoMXRecordMedium }
        /\ validation_results[i] = ValidDomainHigh
             <=> /\ validate_syntax(df[i].email)
                 /\ \E k \in CallsFor(i) :
                       /\ lookup[k].domain = AfterAt(df[i].email)
                       /\ lookup[k].answer.kind = "answer"
                       /\ lookup[k].answer.n >= 1
        /\ validate_syntax(df[i].email) =>
              /\ Cardinality(CallsFor(i)) = 1
              /\ \A k \in CallsFor(i) : lookup[k].domain = AfterAt(df[i].email)

C2_Witness ==
    /\ df[1].email = AddressTrailingNewline
    /\ validation_results = << ValidDomainHigh >>

(***************************************************************************)
(* C3: validate_mx is true exactly when the lookup returned at least one   *)
(* record and false on every failure of the resolver; no failure leaves    *)
(* validate_mx or ends the batch, and the row whose lookup failed is       *)
(* classified (No MX Record, Medium).                                      *)
(***************************************************************************)
C3_ResolverFailureIsNoMX ==
    /\ pc # "raised"
    /\ \A k \in 1..Len(lookup) :
          LET a == lookup[k].answer
          IN  /\ lookup[k].row \in Classified
              /\ validation_results[lookup[k].row] = ValidDomainHigh
                    <=> (a.kind = "answer" /\ a.n >= 1)
              /\ a.kind \in Raises =>
                    validation_results[lookup[k].row] = NoMXRecordMedium
    /\ (pc \in { "save", "done" }) => Len(validation_results) = Len(df)

C3_Witness ==
    /\ pc = "done"
    /\ Len(df) = 2
    /\ \E k \in CallsFor(1) : lookup[k].answer.kind = "Timeout"
    /\ df[1].validation_status = "No MX Record"
    /\ df[1].confidence = "Medium"
    /\ df[2].validation_status = "Valid Domain"

(***************************************************************************)
(* C4: the result table holds exactly one row per distinct (title, link)   *)
(* pair whose title has a hyphen, in the order of first occurrence in the  *)
(* input.                                                                  *)
(***************************************************************************)
C4_StableDeduplication ==
    Scraped =>
        /\ \A i \in 1..Len(df) :
              /\ Occurrences(input, PairOf(df[i])) # {}
              /\ HasHyphen(df[i].Title)
        /\ \A k \in 1..Len(input) :
              HasHyphen(input[k].title) =>
                  Cardinality({ i \in 1..Len(df) : PairOf(df[i]) = input[k] }) = 1
        /\ \A i \in 1..Len(df) : \A j \in 1..Len(df) :
              i < j => FirstOccurrence(input, PairOf(df[i]))
                          < FirstOccurrence(input, PairOf(df[j]))

C4_Witness ==
    /\ pc = "done"
    /\ Len(input) = 3
    /\ input[1] = input[3]
    /\ input[1] # input[2]
    /\ Len(df) = 2
    /\ PairOf(df[1]) = input[1]
    /\ PairOf(df[2]) = input[2]

(***************************************************************************)
(* C5: a record whose title has no hyphen, or has no title, never becomes  *)
(* a row: the scraped rows are the input with those records left out, no   *)
(* error is raised, and no row of the table comes from such a record.      *)
(***************************************************************************)
HyphenRecord(r) == HasHyphen(r.title)

C5_NoHyphenDropped ==
    /\ pc # "raised"
    /\ Len(rows) = Len(SelectSeq(input, HyphenRecord))
    /\ \A i \in 1..Len(rows) :
          PairOf(rows[i]) = SelectSeq(input, HyphenRecord)[i]
    /\ \A i \in 1..Len(df) : HasHyphen(df[i].Title)

C5_Witness ==
    /\ pc = "done"
    /\ \E k \in 1..Len(input) : input[k].title = TitleNoHyphen
    /\ \E k \in 1..Len(input) : input[k].title = None
    /\ Len(df) = 1
    /\ df[1].Title = TitleJane

(***************************************************************************)
(* C6, as amended: the address is lowercase(first name) + separator +      *)
(* lowercase(last name) + lowercase(domain suffix).                        *)
(***************************************************************************)
AddressJaneDot ==
    << "j","a","n","e",".","d","o","e","@","a","c","m","e",".","c","o","m" >>
AddressJaneUnderscore ==
    << "j","a","n","e","_","d","o","e","@","a","c","m","e",".","c","o","m" >>

C6_AddressLowercasesSuffix ==
    Processed =>
        \A i \in 1..Len(df) :
            /\ df[i].email = Lower(df[i].first_name) \o separator
                                \o Lower(df[i].last_name) \o Lower(email_suffix)
            /\ (df[i].Title = TitleJane /\ email_suffix = SuffixAcme) =>
                  df[i].email = IF separator = << "." >>
                                THEN AddressJaneDot ELSE AddressJaneUnderscore

C6_Witness ==
    /\ Processed
    /\ df[1].Title = TitleJane
    /\ email_suffix = SuffixMixed
    /\ df[1].email # Lower(df[1].first_name) \o separator
                        \o Lower(df[1].last_name) \o email_suffix

\* C6 as stated: the domain suffix is appended exactly as supplied.
C6_Original ==
    Processed =>
        \A i \in 1..Len(df) :
            df[i].email = Lower(df[i].first_name) \o separator
                             \o Lower(df[i].last_name) \o email_suffix

(***************************************************************************)
(* C7, as amended: the full name is the trimmed text before the first      *)
(* hyphen, and the position is the trimmed text between the first hyphen   *)
(* and the second one (the end of the title when there is only one).       *)
(***************************************************************************)
C7_PositionIsSecondSegment ==
    Processed =>
        \A i \in 1..Len(df) :
            /\ IsTrimOf(df[i].full_name, BeforeFirstHyphen(df[i].Title))
            /\ IsTrimOf(df[i].position,
                        BeforeFirstHyphen(AfterFirstHyphen(df[i].Title)))

C7_Witness ==
    /\ Processed
    /\ HyphenCount(df[1].Title) = 2
    /\ df[1].position # << >>
    /\ ~IsTrimOf(df[1].position, AfterFirstHyphen(df[1].Title))

\* C7 as stated: the position is the trimmed whole remainder after the
\* first hyphen.
C7_Original ==
    Processed =>
        \A i \in 1..Len(df) :
            /\ IsTrimOf(df[i].full_name, BeforeFirstHyphen(df[i].Title))
            /\ IsTrimOf(df[i].position, AfterFirstHyphen(df[i].Title))

(***************************************************************************)
(* C8: for a title with exactly one hyphen, parsing yields a full name and *)
(* a position, and the title is whitespace, full name, whitespace, "-",    *)
(* whitespace, position, whitespace, where full name and position have no  *)
(* whitespace at their ends.                                               *)
(***************************************************************************)
RoundTrips(f, p, t) ==
    \E a \in 0..Len(t) : \E b \in 0..Len(t) : \E c \in 0..Len(t) :
        LET h == a + Len(f) + b + 1
            e == h + c + Len(p)
        IN  /\ e <= Len(t)
            /\ AllWhitespace(t, 1, a)
            /\ SubSeq(t, a + 1, a + Len(f)) = f
            /\ AllWhitespace(t, a + Len(f) + 1, h - 1)
            /\ t[h] = "-"
            /\ AllWhitespace(t, h + 1, h + c)
            /\ SubSeq(t, h + c + 1, e) = p
            /\ AllWhitespace(t, e + 1, Len(t))

C8_RoundTripModuloTrimming ==
    Processed =>
        \A i \in 1..Len(df) :
            HyphenCount(df[i].Title) = 1 =>
                /\ df[i].full_name # NaN
                /\ df[i].position # NaN
                /\ df[i].first_name # NaN
                /\ df[i].last_name # NaN
                /\ NoEdgeWhitespace(df[i].full_name)
                /\ NoEdgeWhitespace(df[i].position)
                /\ RoundTrips(df[i].full_name, df[i].position, df[i].Title)

C8_Witness ==
    /\ Processed
    /\ df[1].Title = << "J", " ", "-", "d", " " >>
    /\ df[1].full_name = << "J" >>
    /\ df[1].position = << "d" >>

(***************************************************************************)
(* C9, as amended: every value given to the progress bar is in [0,1] and   *)
(* none is below the one before; the bar starts at 0 and gets one value    *)
(* per search page fetched, (pages fetched)/pages; it is at 1 when the     *)
(* last page has been fetched, before any record is parsed or classified,  *)
(* and gets no value after that.                                           *)
(***************************************************************************)
C9_ProgressPerPage ==
    /\ \A k \in 1..Len(progress) : InUnit(progress[k])
    /\ \A k \in 1..(Len(progress) - 1) : Leq(progress[k], progress[k + 1])
    /\ (search_calls > 0 \/ pc \notin { "main", "stopped" }) =>
          /\ Len(progress) = page + 1
          /\ progress[1] = Fraction(0, 1)
          /\ \A k \in 1..page : progress[k + 1][1] * pages = k * progress[k + 1][2]
    /\ Processed => page = pages /\ IsOne(progress[Len(progress)])

C9_Witness ==
    /\ pc = "done"
    /\ pages = 2
    /\ Len(df) = 2
    /\ progress = << Fraction(0, 1), Fraction(1, 2), Fraction(2, 2) >>

\* C9 as stated: the value is in [0,1], never decreases, and is advanced by
\* each record that completes.
C9_Original ==
    [][ /\ \A k \in 1..Len(progress') : InUnit(progress'[k])
        /\ \A k \in 1..(Len(progress') - 1) : Leq(progress'[k], progress'[k + 1])
        /\ Len(validation_results') > Len(validation_results) =>
              /\ Len(progress') > Len(progress)
              /\ Less(progress[Len(progress)], progress'[Len(progress')])
      ]_vars

(***************************************************************************)
(* C10: no search, no MX lookup and no workbook write happens unless       *)
(* company name, email domain, location and workbook are given and the API *)
(* key is set; and when the search yields no record with a hyphen the run  *)
(* stops with nothing parsed, looked up or written, and no exception.      *)
(***************************************************************************)
C10_MainActionGated ==
    /\ (search_calls > 0 \/ lookup # << >> \/ workbook_writes > 0
            \/ pc \notin { "main", "stopped" }) =>
          /\ company_name # << >>
          /\ email_suffix # << >>
          /\ location # << >>
          /\ uploaded_excel
          /\ SERPAPI_KEY # None /\ SERPAPI_KEY # << >>
    /\ (Scraped /\ \A k \in 1..Len(input) : ~HasHyphen(input[k].title)) =>
          /\ pc = "stopped"
          /\ df = << >>
          /\ validation_results = << >>
          /\ lookup = << >>
          /\ workbook_writes = 0

C10_Witness ==
    /\ pc = "stopped"
    /\ search_calls = 2
    /\ Len(input) = 2
    /\ lookup = << >>
    /\ workbook_writes = 0

=============================================================================
